---- MODULE Spec2Model ----
(***************************************************************************)
(* Model of app/tracker.py: Track (a constant-velocity Kalman filter per   *)
(* trajectory) and PeopleTracker (greedy nearest-centre association, track *)
(* creation, removal by missed_frames, result list with confidences),      *)
(* together with the module-level id counter _TRACK_ID, and of the         *)
(* detection records built by app/detector.py.                             *)
(*                                                                         *)
(* Numbers.  The code computes centres, velocities and covariances in      *)
(* floating point.  The model keeps them in fixed point: positions and     *)
(* velocities in 1/SCALE pixel, covariances in 1/SCALE (so that Q = 0.01   *)
(* is one unit), the Kalman gain in 1/GAIN.  Distances are compared by     *)
(* their squares (math.hypot is monotone in the squared distance).         *)
(* The 4x4 covariance of the filter is block diagonal with two equal 2x2   *)
(* blocks (x with vx, y with vy), because P, Q, R start as multiples of    *)
(* the identity and F, H couple each position with its own velocity only;  *)
(* the model keeps one block <<p11, p12, p22>>.                            *)
(* A confidence is an integer number of hundredths; an absent confidence   *)
(* (None) is the empty sequence and a present one a one-element sequence.  *)
(* List indices are 1-based here and 0-based in the code.                  *)
(***************************************************************************)
EXTENDS Integers, Sequences, FiniteSets, TLC

VARIABLES TRACK_ID, trackers, created, last, hist

vars == <<TRACK_ID, trackers, created, last, hist>>

\* ------------------------------------------------------------------ bounds
\* update calls in Spec
MaxFrames == 3
\* update calls per instance in SpecTwo
MaxFramesTwo == 2
\* detections per frame
MaxDets == 2
\* detections given to one instance over all its update calls, in Spec and
\* SpecTwo
MaxTotalDets == 4
\* update calls of the scenario specification whose input is free
ScenFree == 4
\* update calls of the scenario specification
ScenFrames == 13
\* update calls in SpecRepeat
MaxFramesRepeat == 4
MaxFramesOther == 3
MaxFramesFail == 3

\* ------------------------------------------------------- numeric constants
SCALE == 100
GAIN == 1000
\* kf.P *= 100.0, kf.R *= 5.0, kf.Q *= 0.01, in 1/SCALE
P0 == 10000
R == 500
Q == 1
\* defaults of PeopleTracker.__init__: max_distance = 60.0 (in 1/SCALE pixel),
\* max_missed = 10
DefaultMaxDistance == 6000
DefaultMaxMissed == 10
\* the initial value of the module-level counter _TRACK_ID
FirstTrackId == 1

Instances == {"A", "B"}

None == <<>>
Some(c) == <<c>>

\* a / b rounded to the nearest integer, b > 0
RDiv(a, b) == IF a >= 0 THEN (a + b \div 2) \div b ELSE -((b \div 2 - a) \div b)

\* -------------------------------------------------------------- detector.py
\* "center": ((x1 + x2) // 2, (y1 + y2) // 2)
Center(bbox) == <<(bbox[1] + bbox[3]) \div 2, (bbox[2] + bbox[4]) \div 2>>

\* the record detect() appends for one box
MkDet(bbox, conf) == [bbox |-> bbox, conf |-> Some(conf), center |-> Center(bbox)]

\* ------------------------------------------------------------------- Track
\* Track.__init__: the state is the exact midpoint of the box, zero velocity
NewTrack(bbox, track_id) ==
    [id |-> track_id,
     x |-> <<(bbox[1] + bbox[3]) * (SCALE \div 2), (bbox[2] + bbox[4]) * (SCALE \div 2), 0, 0>>,
     P |-> <<P0, 0, P0>>,
     bbox |-> bbox,
     missed_frames |-> 0,
     hits |-> 1]

\* a prediction that also moves the box by the predicted velocity
TrackPredictMovesBox(tr) ==
    [tr EXCEPT !.x = <<tr.x[1] + tr.x[3], tr.x[2] + tr.x[4], tr.x[3], tr.x[4]>>,
               !.P = <<tr.P[1] + 2 * tr.P[2] + tr.P[3] + Q, tr.P[2] + tr.P[3], tr.P[3] + Q>>,
               !.bbox = <<tr.bbox[1] + RDiv(tr.x[3], SCALE), tr.bbox[2] + RDiv(tr.x[4], SCALE),
                          tr.bbox[3] + RDiv(tr.x[3], SCALE), tr.bbox[4] + RDiv(tr.x[4], SCALE)>>]

\* Track.predict: x = F x, P = F P F' + Q
TrackPredict(tr) ==
    [tr EXCEPT !.x = <<tr.x[1] + tr.x[3], tr.x[2] + tr.x[4], tr.x[3], tr.x[4]>>,
               !.P = <<tr.P[1] + 2 * tr.P[2] + tr.P[3] + Q, tr.P[2] + tr.P[3], tr.P[3] + Q>>]

\* an update that corrects the filter and forgets the observed box
TrackUpdateKeepsBox(tr, bbox) == [tr EXCEPT !.missed_frames = 0, !.hits = tr.hits + 1]

\* Track.update: the Kalman correction with the exact midpoint of bbox as the
\* measurement (S = p11 + R, K = <<p11, p12>> / S, x = x + K y,
\* P = (I - K H) P, which is <<p11 R / S, p12 R / S, p22 - p12 p12 / S>>),
\* then bbox, missed_frames and hits
TrackUpdate(tr, bbox) ==
    LET zx == (bbox[1] + bbox[3]) * (SCALE \div 2)
        zy == (bbox[2] + bbox[4]) * (SCALE \div 2)
        S  == tr.P[1] + R
        K1 == RDiv(tr.P[1] * GAIN, S)
        K2 == RDiv(tr.P[2] * GAIN, S)
        yx == zx - tr.x[1]
        yy == zy - tr.x[2]
    IN [tr EXCEPT !.x = <<tr.x[1] + RDiv(K1 * yx, GAIN), tr.x[2] + RDiv(K1 * yy, GAIN),
                          tr.x[3] + RDiv(K2 * yx, GAIN), tr.x[4] + RDiv(K2 * yy, GAIN)>>,
                  !.P = <<RDiv(tr.P[1] * R, S),
                          RDiv(tr.P[2] * R, S),
                          tr.P[3] - RDiv(K2 * tr.P[2], GAIN)>>,
                  !.bbox = bbox,
                  !.missed_frames = 0,
                  !.hits = tr.hits + 1]

\* Track.predict with its try/except.  mode "ok": kf.predict() returns;
\* "early": it raises before it changed anything; "late": it raises after
\* x = F x and before P is replaced.  The exception is logged and swallowed.
TrackPredictTry(tr, mode) ==
    IF mode = "ok" THEN TrackPredict(tr)
    ELSE IF mode = "early" THEN tr
    ELSE [tr EXCEPT !.x = TrackPredict(tr).x]

\* an update that stores the observed box before the filter is corrected
TrackUpdateTryBoxFirst(tr, bbox, fails) ==
    IF fails THEN [tr EXCEPT !.bbox = bbox] ELSE TrackUpdate(tr, bbox)

\* Track.update with its try/except.  When kf.update raises (the inverse of S
\* is taken before x and P are assigned) the filter, bbox, missed_frames and
\* hits keep their values; the exception is logged and swallowed.
TrackUpdateTry(tr, bbox, fails) == IF fails THEN tr ELSE TrackUpdate(tr, bbox)

\* which filter calls raise in one PeopleTracker.update: the track indices
\* whose predict raises early (pe) or late (pl) and whose update raises (u)
NoFail == [pe |-> {}, pl |-> {}, u |-> {}]
PredictMode(f, k) == IF k \in f.pe THEN "early" ELSE IF k \in f.pl THEN "late" ELSE "ok"

\* ----------------------------------------------------------- PeopleTracker
\* PeopleTracker._distance, squared: centre c of a track in 1/SCALE pixel,
\* centre dc of a detection in whole pixels
Dist2(c, dc) ==
    (c[1] - dc[1] * SCALE) * (c[1] - dc[1] * SCALE)
  + (c[2] - dc[2] * SCALE) * (c[2] - dc[2] * SCALE)

\* a scan that keeps the farthest detection instead of the nearest
CloserFarthest(d, best) == best[1] = 0 \/ d > best[2]

\* a scan in which the last of several equally near detections wins
CloserOrEqual(d, best) == best[1] = 0 \/ d <= best[2]

\* "d < best_d"; best = <<best_di, best_d>>, best_di = 0 is None with
\* best_d = float("inf")
Closer(d, best) == best[1] = 0 \/ d < best[2]

\* "best_di is not None and best_d <= self.max_distance"
Accepts(best, max_distance) ==
    /\ best[1] # 0
    /\ max_distance >= 0
    /\ best[2] <= max_distance * max_distance

\* an association that forgets to mark the detection as claimed
ClaimDetForgotten(matched_det_idx, best_di) == matched_det_idx

\* "matched_det_idx.add(best_di)"
ClaimDet(matched_det_idx, best_di) == matched_det_idx \cup {best_di}

\* a counter that is not advanced
NextIdStuck(n) == n

\* "_TRACK_ID += 1"
NextId(n) == n + 1

\* a removal one frame early
SurvivesStrict(t, max_missed) == t.missed_frames < max_missed

\* a removal one frame late
SurvivesLate(t, max_missed) == t.missed_frames <= max_missed + 1

\* "t.missed_frames <= self.max_missed"
Survives(t, max_missed) == t.missed_frames <= max_missed

\* the inner loop over det_centers, from index di on
RECURSIVE ScanDets(_, _, _, _, _)
ScanDets(c, dets, matched_det_idx, di, best) ==
    IF di > Len(dets) THEN best
    ELSE IF di \in matched_det_idx
         THEN ScanDets(c, dets, matched_det_idx, di + 1, best)
         ELSE LET d == Dist2(c, dets[di].center)
              IN ScanDets(c, dets, matched_det_idx, di + 1,
                          IF Closer(d, best) THEN <<di, d>> ELSE best)

\* step 3, the loop over self.tracks from index ti on.  acc holds the tracks,
\* matched_det_idx, matched_tr_idx, the track indices whose filter update
\* raises (ufail) and, for the record, the pairs in the order they were made
RECURSIVE Associate(_, _, _, _)
Associate(acc, dets, max_distance, ti) ==
    IF ti > Len(acc.tracks) THEN acc
    ELSE LET tr   == acc.tracks[ti]
             best == ScanDets(<<tr.x[1], tr.x[2]>>, dets, acc.matched_det_idx, 1, <<0, 0>>)
         IN IF Accepts(best, max_distance)
            THEN Associate(
                   [tracks |-> [acc.tracks EXCEPT ![ti] =
                                  TrackUpdateTry(tr, dets[best[1]].bbox, ti \in acc.ufail)],
                    matched_det_idx |-> ClaimDet(acc.matched_det_idx, best[1]),
                    matched_tr_idx |-> acc.matched_tr_idx \cup {ti},
                    ufail |-> acc.ufail,
                    pairs |-> Append(acc.pairs, <<ti, best[1]>>)],
                   dets, max_distance, ti + 1)
            ELSE Associate(
                   [acc EXCEPT !.tracks[ti].missed_frames = tr.missed_frames + 1],
                   dets, max_distance, ti + 1)

\* step 4, the loop over detections from index di on.  acc holds the tracks,
\* the counter _TRACK_ID and, for the record, the (detection, id) pairs
RECURSIVE Spawn(_, _, _, _)
Spawn(acc, dets, matched_det_idx, di) ==
    IF di > Len(dets) THEN acc
    ELSE IF di \in matched_det_idx
         THEN Spawn(acc, dets, matched_det_idx, di + 1)
         ELSE Spawn([tracks |-> Append(acc.tracks, NewTrack(dets[di].bbox, acc.next_id)),
                     next_id |-> NextId(acc.next_id),
                     spawned |-> Append(acc.spawned, <<di, acc.next_id>>)],
                    dets, matched_det_idx, di + 1)

\* a removal that returns the kept tracks in reverse order
RECURSIVE RemoveDeadReversed(_, _)
RemoveDeadReversed(tracks, max_missed) ==
    IF tracks = <<>> THEN <<>>
    ELSE LET rest == RemoveDeadReversed(Tail(tracks), max_missed)
         IN IF Survives(Head(tracks), max_missed) THEN rest \o <<Head(tracks)>> ELSE rest

\* step 5: the tracks whose missed_frames is within max_missed, in order
RECURSIVE RemoveDead(_, _)
RemoveDead(tracks, max_missed) ==
    IF tracks = <<>> THEN <<>>
    ELSE LET rest == RemoveDead(Tail(tracks), max_missed)
         IN IF Survives(Head(tracks), max_missed) THEN <<Head(tracks)>> \o rest ELSE rest

\* step 6, first loop: one record per track, conf None.  tuple(map(int, bbox))
\* leaves a tuple of ints as it is
BareResults(tracks) ==
    [k \in 1..Len(tracks) |->
        [id |-> tracks[k].id, bbox |-> tracks[k].bbox, conf |-> None, class |-> "person"]]

\* step 6, second loop, from detection di on: every record whose bbox equals
\* the detection's bbox gets the detection's conf
RECURSIVE AttachConf(_, _, _)
AttachConf(results, dets, di) ==
    IF di > Len(dets) THEN results
    ELSE AttachConf(
           [k \in 1..Len(results) |->
               IF results[k].bbox = dets[di].bbox
               THEN [results[k] EXCEPT !.conf = dets[di].conf]
               ELSE results[k]],
           dets, di + 1)

\* PeopleTracker.update as a function of the tracker's tracks, the counter,
\* the detections and the filter calls that raise (f): the new tracks, the new
\* counter, the returned list, and the record of what was paired and created
UpdateOp(tracks, next_id, dets, max_distance, max_missed, f) ==
    LET pred  == [k \in 1..Len(tracks) |-> TrackPredictTry(tracks[k], PredictMode(f, k))]
        assoc == Associate([tracks |-> pred, matched_det_idx |-> {},
                            matched_tr_idx |-> {}, ufail |-> f.u, pairs |-> <<>>],
                           dets, max_distance, 1)
        spawn == Spawn([tracks |-> assoc.tracks, next_id |-> next_id, spawned |-> <<>>],
                       dets, assoc.matched_det_idx, 1)
        kept  == RemoveDead(spawn.tracks, max_missed)
    IN [tracks |-> kept,
        next_id |-> spawn.next_id,
        results |-> AttachConf(BareResults(kept), dets, 1),
        pre |-> tracks,
        pred |-> pred,
        pairs |-> assoc.pairs,
        spawned |-> spawn.spawned,
        all |-> spawn.tracks]

\* ------------------------------------------------------------------ inputs
BoxA == <<0, 0, 10, 10>>
BoxB == <<2, 0, 12, 10>>
\* a malformed box: x1 >= x2
BoxBad == <<20, 0, 10, 10>>

DetA == MkDet(BoxA, 90)
DetB == MkDet(BoxB, 80)
DetB2 == MkDet(BoxB, 50)
DetBad == MkDet(BoxBad, 70)

Pool == {DetA, DetB, DetB2, DetBad}
PoolTwo == {DetA, DetB}

\* the lists of at most n detections of a pool
DetLists(pool, n) == UNION {[1..k -> pool] : k \in 0..n}

\* (max_distance in 1/SCALE pixel, max_missed) given to the constructor
Configs == {<<100, 1>>, <<300, 1>>, <<0, 0>>, <<100, -1>>}

Malformed(det) ==
    \/ det.bbox[1] >= det.bbox[3]
    \/ det.bbox[2] >= det.bbox[4]
    \/ det.conf # None /\ (det.conf[1] < 0 \/ det.conf[1] > 100)

\* ------------------------------------------------------------------- state
NoCall == [dets |-> <<>>, results |-> <<>>, pre |-> <<>>, pred |-> <<>>,
           pairs |-> <<>>, spawned |-> <<>>, all |-> <<>>, fail |-> NoFail]

NotConstructed == [constructed |-> FALSE, tracks |-> <<>>,
                   max_distance |-> 0, max_missed |-> 0]

\* the module is loaded (_TRACK_ID = 1) and no PeopleTracker exists yet
Init ==
    /\ TRACK_ID = FirstTrackId
    /\ trackers = [i \in Instances |-> NotConstructed]
    /\ created = [i \in Instances |-> <<>>]
    /\ last = [i \in Instances |-> NoCall]
    /\ hist = [i \in Instances |-> <<>>]

\* the ids of the tracks matched or created in a call
FreshIds(r) ==
    {r.pred[r.pairs[k][1]].id : k \in 1..Len(r.pairs)}
      \cup {r.spawned[k][2] : k \in 1..Len(r.spawned)}

\* the ids of the tracks whose Track.update raised in a call
UpdateFailedIds(r, f) ==
    {r.pred[r.pairs[k][1]].id : k \in {j \in 1..Len(r.pairs) : r.pairs[j][1] \in f.u}}

\* PeopleTracker(max_distance, max_missed), instance i
Construct(i, max_distance, max_missed) ==
    /\ ~trackers[i].constructed
    /\ trackers' = [trackers EXCEPT ![i] =
                      [constructed |-> TRUE, tracks |-> <<>>,
                       max_distance |-> max_distance, max_missed |-> max_missed]]
    /\ TRACK_ID' = FirstTrackId
    /\ UNCHANGED <<created, last, hist>>

\* the number of detections instance i was given so far
RECURSIVE TotalDets(_)
TotalDets(h) == IF h = <<>> THEN 0 ELSE Len(Head(h).dets) + TotalDets(Tail(h))

\* i.update(dets), the n-th call at most, with at most total detections
\* over all calls, in which the filter calls f raise
UpdateF(i, dets, n, total, f) ==
    /\ trackers[i].constructed
    /\ Len(hist[i]) < n
    /\ TotalDets(hist[i]) + Len(dets) <= total
    /\ \E r \in {UpdateOp(trackers[i].tracks, TRACK_ID, dets,
                         trackers[i].max_distance, trackers[i].max_missed, f)} :
          /\ trackers' = [trackers EXCEPT ![i].tracks = r.tracks]
          /\ TRACK_ID' = r.next_id
          /\ created' = [created EXCEPT ![i] =
                           @ \o [k \in 1..Len(r.spawned) |-> r.spawned[k][2]]]
          /\ last' = [last EXCEPT ![i] =
                        [dets |-> dets, results |-> r.results, pre |-> r.pre,
                         pred |-> r.pred, pairs |-> r.pairs,
                         spawned |-> r.spawned, all |-> r.all, fail |-> f]]
          /\ hist' = [hist EXCEPT ![i] =
                        Append(@, [dets |-> dets, results |-> r.results,
                                   fresh |-> FreshIds(r),
                                   ufailed |-> UpdateFailedIds(r, f)])]

\* i.update(dets) in which no filter call raises: with P, Q and R as set in
\* Track.__init__, S = p11 + 5 is never singular
Update(i, dets, n, total) == UpdateF(i, dets, n, total, NoFail)

\* ---------------------------------------------------------- specifications
\* one instance, any configuration, any frames
ConstructA == \E c \in Configs : Construct("A", c[1], c[2])
UpdateA == \E dets \in DetLists(Pool, MaxDets) : Update("A", dets, MaxFrames, MaxTotalDets)

Next == ConstructA \/ UpdateA

Spec == Init /\ [][Next]_vars

\* two instances with the defaults, constructed and updated in any order
ConstructAny == \E i \in Instances : Construct(i, DefaultMaxDistance, DefaultMaxMissed)
UpdateAny ==
    \E i \in Instances : \E dets \in DetLists(PoolTwo, MaxDets) : Update(i, dets, MaxFramesTwo, MaxTotalDets)

NextTwo == ConstructAny \/ UpdateAny

SpecTwo == Init /\ [][NextTwo]_vars

\* one instance with the defaults; the first ScenFree frames hold nothing, DetA
\* or DetB, the later ones nothing
ConstructDefault == Construct("A", DefaultMaxDistance, DefaultMaxMissed)
ScenFrame ==
    \E dets \in {<<>>, <<DetA>>, <<DetB>>} :
        /\ Len(hist["A"]) < ScenFree
        /\ Update("A", dets, ScenFrames, ScenFrames)
ScenEmpty ==
    /\ Len(hist["A"]) >= ScenFree
    /\ Update("A", <<>>, ScenFrames, ScenFrames)

NextScen == ConstructDefault \/ ScenFrame \/ ScenEmpty

SpecScen == Init /\ [][NextScen]_vars

\* one instance with a positive configuration; the first frame holds one
\* detection and every later frame holds the same detection or nothing
BoxOdd == <<0, 0, 11, 10>>
BoxOdd2 == <<0, 0, 11, 11>>
RepeatBoxes == {BoxA, BoxOdd, BoxOdd2}
RepeatConfigs == {<<30, 1>>, <<50, 1>>, <<100, 2>>, <<6000, 2>>}

ConstructRepeat == \E c \in RepeatConfigs : Construct("A", c[1], c[2])
RepeatFirst ==
    \E b \in RepeatBoxes :
        /\ hist["A"] = <<>>
        /\ Update("A", <<MkDet(b, 90)>>, MaxFramesRepeat, MaxFramesRepeat)
RepeatSame ==
    /\ hist["A"] # <<>>
    /\ Update("A", hist["A"][1].dets, MaxFramesRepeat, MaxFramesRepeat)
RepeatGap ==
    /\ hist["A"] # <<>>
    /\ Update("A", <<>>, MaxFramesRepeat, MaxFramesRepeat)

NextRepeat == ConstructRepeat \/ RepeatFirst \/ RepeatSame \/ RepeatGap

SpecRepeat == Init /\ [][NextRepeat]_vars

\* a first instance with a narrow gate is updated; a second PeopleTracker is
\* constructed at any moment after the first
OtherConfigs == {<<100, 0>>, <<100, 1>>}

ConstructFirst == \E c \in OtherConfigs : Construct("A", c[1], c[2])
ConstructSecond ==
    /\ trackers["A"].constructed
    /\ Construct("B", DefaultMaxDistance, DefaultMaxMissed)
UpdateFirst ==
    \E dets \in DetLists(PoolTwo, MaxDets) : Update("A", dets, MaxFramesOther, MaxTotalDets)

NextOther == ConstructFirst \/ ConstructSecond \/ UpdateFirst

SpecOther == Init /\ [][NextOther]_vars

\* one instance; in every call the filter calls of at most one track raise:
\* its predict (early or late), its update, or both
FailSets(n) ==
    {NoFail}
      \cup {[pe |-> IF e THEN {k} ELSE {}, pl |-> IF e THEN {} ELSE {k}, u |-> {}] :
               k \in 1..n, e \in BOOLEAN}
      \cup {[pe |-> {}, pl |-> IF l THEN {k} ELSE {}, u |-> {k}] :
               k \in 1..n, l \in BOOLEAN}

ConstructFail == Construct("A", 300, 1)
UpdateFail ==
    \E dets \in DetLists(PoolTwo, MaxDets) :
        \E f \in FailSets(Len(trackers["A"].tracks)) :
            UpdateF("A", dets, MaxFramesFail, MaxTotalDets, f)

NextFail == ConstructFail \/ UpdateFail

SpecFail == Init /\ [][NextFail]_vars

\* ------------------------------------------------------------------ claims
Ids(results) == {results[k].id : k \in 1..Len(results)}
PairedDets(r) == {r.pairs[k][2] : k \in 1..Len(r.pairs)}
SpawnedDets(r) == {r.spawned[k][1] : k \in 1..Len(r.spawned)}
TrackIds(i) == {trackers[i].tracks[k].id : k \in 1..Len(trackers[i].tracks)}

\* the ids are 1 first and then strictly increasing
Increasing(c) ==
    /\ (Len(c) > 0 => c[1] = FirstTrackId)
    /\ \A j \in 1..Len(c) : \A k \in 1..Len(c) : j < k => c[j] < c[k]

\* C1: with one PeopleTracker instance, the ids given to new tracks are
\* strictly increasing in creation order, start at 1 and are never given
\* twice, removed tracks included.
C1_IdsIncreasing == Increasing(created["A"])

\* an id was created after an earlier track had been removed
C1_Witness ==
    \E j \in 1..Len(created["A"]) : \E k \in 1..Len(created["A"]) :
        /\ j < k
        /\ created["A"][j] \notin TrackIds("A")
        /\ created["A"][k] \in TrackIds("A")

\* C2: with two instances, the ids instance A assigns stay strictly
\* increasing from 1 on, whatever is done with instance B.
C2_NoCrossInstanceLeak == Increasing(created["A"])

\* C3: a result record carries a confidence only if its track was matched
\* or created in this call; a stale track is reported with conf None.
C3_ConfOnlyFresh ==
    \A k \in 1..Len(last["A"].results) :
        last["A"].results[k].conf # None
            => last["A"].results[k].id \in FreshIds(last["A"])

\* C4: the confidence reported for a matched or created track is the
\* confidence of the detection it was paired with or created from.
C4_ConfOfPairedDet ==
    LET r == last["A"]
    IN /\ \A p \in 1..Len(r.pairs) : \A k \in 1..Len(r.results) :
            r.results[k].id = r.pred[r.pairs[p][1]].id
                => r.results[k].conf = r.dets[r.pairs[p][2]].conf
       /\ \A p \in 1..Len(r.spawned) : \A k \in 1..Len(r.results) :
            r.results[k].id = r.spawned[p][2]
                => r.results[k].conf = r.dets[r.spawned[p][1]].conf

\* squared distance of detection di from the predicted centre of track ti
D2(r, ti, di) == Dist2(<<r.pred[ti].x[1], r.pred[ti].x[2]>>, r.dets[di].center)

InGate(r, ti, di, max_distance) ==
    max_distance >= 0 /\ D2(r, ti, di) <= max_distance * max_distance

\* detection di is within the gate of track ti and of no other track, and
\* strictly closer to ti than to any other track
OnlyCandidate(r, ti, di, max_distance) ==
    /\ InGate(r, ti, di, max_distance)
    /\ \A tj \in 1..Len(r.pred) :
          tj # ti => /\ ~InGate(r, tj, di, max_distance)
                     /\ D2(r, ti, di) < D2(r, tj, di)

Paired(r, ti, di) == \E p \in 1..Len(r.pairs) : r.pairs[p] = <<ti, di>>

\* C5 as stated: a detection within max_distance of exactly one track's
\* predicted centre, and strictly closer to it than to any other track, is
\* matched to that track.
C5_AlwaysMatched ==
    LET r == last["A"]
    IN \A ti \in 1..Len(r.pred) : \A di \in 1..Len(r.dets) :
          OnlyCandidate(r, ti, di, trackers["A"].max_distance) => Paired(r, ti, di)

\* C5 amended: such a detection is matched to that track unless the track is
\* matched to another detection that is nearer to it, or equally near with
\* a lower index.
C5_MatchedUnlessNearer ==
    LET r == last["A"]
    IN \A ti \in 1..Len(r.pred) : \A di \in 1..Len(r.dets) :
          OnlyCandidate(r, ti, di, trackers["A"].max_distance)
            => \/ Paired(r, ti, di)
               \/ \E dj \in 1..Len(r.dets) :
                     /\ dj # di
                     /\ Paired(r, ti, dj)
                     /\ \/ D2(r, ti, dj) < D2(r, ti, di)
                        \/ D2(r, ti, dj) = D2(r, ti, di) /\ dj < di

\* with two tracks, a detection in the gate of one of them only is matched
\* to it
C5_Witness ==
    LET r == last["A"]
    IN /\ Len(r.pred) >= 2
       /\ \E ti \in 1..Len(r.pred) : \E di \in 1..Len(r.dets) :
             /\ trackers["A"].max_distance > 0
             /\ OnlyCandidate(r, ti, di, trackers["A"].max_distance)
             /\ Paired(r, ti, di)

\* the last call up to call k in which id was matched or created, 0 if none
LastFresh(h, id, k) ==
    LET js == {j \in 1..k : id \in h[j].fresh}
    IN IF js = {} THEN 0 ELSE CHOOSE j \in js : \A m \in js : m <= j

\* C6: a track is in the result list of a call exactly when the number of
\* consecutive calls without a match, this one included, is at most
\* max_missed: it is dropped on the (max_missed + 1)-th miss and not before;
\* the missed_frames of a kept track is that number.
C6_RemovedOnFirstExcess ==
    LET h == hist["A"]
        n == Len(h)
    IN n > 0 =>
        /\ \A c \in 1..Len(created["A"]) :
              LET id == created["A"][c]
              IN id \in Ids(h[n].results)
                    <=> n - LastFresh(h, id, n) <= trackers["A"].max_missed
        /\ \A k \in 1..Len(trackers["A"].tracks) :
              LET t == trackers["A"].tracks[k]
              IN t.missed_frames = n - LastFresh(h, t.id, n)

\* with max_missed = 1 a track was reported on its first miss and dropped on
\* its second
C6_Witness ==
    LET h == hist["A"]
        n == Len(h)
    IN /\ trackers["A"].max_missed = 1
       /\ n >= 3
       /\ \E c \in 1..Len(created["A"]) :
             LET id == created["A"][c]
             IN /\ n - LastFresh(h, id, n) = 2
                /\ id \in Ids(h[n - 1].results)
                /\ id \notin Ids(h[n].results)

\* C7: within one call no detection is matched to two tracks, no track to
\* two detections, and a matched detection spawns no track.
C7_Injective ==
    LET r == last["A"]
    IN /\ \A a \in 1..Len(r.pairs) : \A b \in 1..Len(r.pairs) :
            a # b => r.pairs[a][1] # r.pairs[b][1] /\ r.pairs[a][2] # r.pairs[b][2]
       /\ PairedDets(r) \cap SpawnedDets(r) = {}

\* two tracks were matched to the two detections of a frame
C7_Witness == Len(last["A"].pairs) = 2 /\ Len(last["A"].dets) = 2

\* C8: no manager exists with a non-positive max_distance or max_missed.
C8_RejectsNonPositive ==
    trackers["A"].constructed
        => trackers["A"].max_distance > 0 /\ trackers["A"].max_missed > 0

\* C9: a malformed detection is matched to no track and spawns no track.
C9_MalformedSkipped ==
    LET r == last["A"]
    IN \A di \in 1..Len(r.dets) :
          Malformed(r.dets[di]) => di \notin PairedDets(r) \cup SpawnedDets(r)

\* the frames of the scenario and the outputs it states
ScenInput(k) == IF k = 1 THEN <<DetA>> ELSE IF k = 2 THEN <<DetB>> ELSE <<>>
ScenOutput(k) ==
    IF k = 1 THEN <<[id |-> 1, bbox |-> BoxA, conf |-> Some(90), class |-> "person"]>>
    ELSE IF k = 2 THEN <<[id |-> 1, bbox |-> BoxB, conf |-> Some(80), class |-> "person"]>>
    ELSE IF k <= 2 + DefaultMaxMissed
         THEN <<[id |-> 1, bbox |-> BoxB, conf |-> None, class |-> "person"]>>
         ELSE <<>>
OnScenario(h, k) == \A j \in 1..k : h[j].dets = ScenInput(j)

\* C10: on a fresh manager with the defaults, frame 1 = [DetA] gives id 1 at
\* BoxA with conf 0.9, frame 2 = [DetB] gives id 1 at BoxB with conf 0.8,
\* the empty frames 3 to 12 give id 1 at BoxB without conf, and the empty
\* frame 13 gives the empty list.
C10_Scenario ==
    \A k \in 1..Len(hist["A"]) :
        OnScenario(hist["A"], k) => hist["A"][k].results = ScenOutput(k)

\* the thirteen frames of the scenario were fed
C10_Witness ==
    /\ Len(hist["A"]) >= 3 + DefaultMaxMissed
    /\ OnScenario(hist["A"], 3 + DefaultMaxMissed)
    /\ hist["A"][2 + DefaultMaxMissed].results # <<>>
    /\ hist["A"][3 + DefaultMaxMissed].results = <<>>

\* C11: when every frame holds the same single detection, every output holds
\* exactly one track, the one created in the first frame, and no second track
\* is ever created.
C11_OneTrackForever ==
    (\A k \in 1..Len(hist["A"]) : hist["A"][k].dets # <<>>)
        => /\ Len(created["A"]) <= 1
           /\ \A k \in 1..Len(hist["A"]) :
                 /\ Len(hist["A"][k].results) = 1
                 /\ hist["A"][k].results[1].id = FirstTrackId

\* C18: a track with zero velocity that missed k frames without detections,
\* 1 <= k <= max_missed, and whose box is detected again is matched to that detection: no track is
\* created, its missed_frames is 0 again and its id is in the output.
C18_GapBridged ==
    LET r == last["A"]
    IN \A ti \in 1..Len(r.pre) :
          ( /\ Len(r.dets) = 1
            /\ r.dets[1].bbox = r.pre[ti].bbox
            /\ r.pre[ti].x[3] = 0 /\ r.pre[ti].x[4] = 0
            /\ r.pre[ti].missed_frames >= 1
            /\ r.pre[ti].missed_frames <= trackers["A"].max_missed
            /\ \A j \in 1..(Len(hist["A"]) - 1) :
                  j >= Len(hist["A"]) - r.pre[ti].missed_frames
                     => hist["A"][j].dets = <<>> )
          => /\ Paired(r, ti, 1)
             /\ r.spawned = <<>>
             /\ r.all[ti].missed_frames = 0
             /\ r.pre[ti].id \in Ids(r.results)

\* C12: after max_missed + 1 consecutive update calls without detections the
\* track list is empty and the last call returned the empty list.
C12_EmptyFramesClear ==
    LET h == hist["A"]
        n == Len(h)
        m == trackers["A"].max_missed
    IN ( /\ m + 1 >= 1
         /\ n >= m + 1
         /\ \A j \in 1..n : j >= n - m => h[j].dets = <<>> )
       => trackers["A"].tracks = <<>> /\ h[n].results = <<>>

\* with max_missed = 1, two empty frames emptied a manager that had a track
C12_Witness ==
    LET h == hist["A"]
        n == Len(h)
    IN /\ trackers["A"].max_missed = 1
       /\ n >= 3
       /\ h[n].dets = <<>> /\ h[n - 1].dets = <<>>
       /\ h[n - 2].results # <<>>
       /\ trackers["A"].tracks = <<>>

\* the greedy association as the specification words it: the tracks in list
\* order; for each the unclaimed detection at minimum distance, the lowest
\* index among equals; matched iff that distance is within the gate
RECURSIVE RefPairs(_, _, _, _, _)
RefPairs(pred, dets, max_distance, ti, claimed) ==
    IF ti > Len(pred) THEN <<>>
    ELSE LET avail == (1..Len(dets)) \ claimed
             c == <<pred[ti].x[1], pred[ti].x[2]>>
         IN IF avail = {} THEN RefPairs(pred, dets, max_distance, ti + 1, claimed)
            ELSE LET b == CHOOSE di \in avail : \A dj \in avail :
                              \/ Dist2(c, dets[di].center) < Dist2(c, dets[dj].center)
                              \/ /\ Dist2(c, dets[di].center) = Dist2(c, dets[dj].center)
                                 /\ di <= dj
                 IN IF max_distance >= 0
                       /\ Dist2(c, dets[b].center) <= max_distance * max_distance
                    THEN <<<<ti, b>>>>
                           \o RefPairs(pred, dets, max_distance, ti + 1, claimed \cup {b})
                    ELSE RefPairs(pred, dets, max_distance, ti + 1, claimed)

\* C14: the pairs made in a call are those of the greedy reference, and the
\* detections that create tracks are exactly those it leaves unclaimed.
C14_GreedyReference ==
    LET r == last["A"]
        ref == RefPairs(r.pred, r.dets, trackers["A"].max_distance, 1, {})
    IN /\ r.pairs = ref
       /\ SpawnedDets(r) = (1..Len(r.dets)) \ {ref[k][2] : k \in 1..Len(ref)}

\* an earlier track took a detection that is nearer to a later track
C14_Witness ==
    LET r == last["A"]
    IN \E p \in 1..Len(r.pairs) : \E tj \in 1..Len(r.pred) :
          /\ tj > r.pairs[p][1]
          /\ D2(r, tj, r.pairs[p][2]) < D2(r, r.pairs[p][1], r.pairs[p][2])

UnmatchedTracks(r) == (1..Len(r.pre)) \ {r.pairs[k][1] : k \in 1..Len(r.pairs)}

\* C15: an unmatched track has its missed_frames raised by exactly 1 and
\* keeps its bbox, id and hits; while it is reported, it is reported with
\* that bbox.
C15_UnmatchedKeepsBox ==
    LET r == last["A"]
    IN \A ti \in UnmatchedTracks(r) :
          /\ r.all[ti].missed_frames = r.pre[ti].missed_frames + 1
          /\ r.all[ti].bbox = r.pre[ti].bbox
          /\ r.all[ti].id = r.pre[ti].id
          /\ r.all[ti].hits = r.pre[ti].hits
          /\ \A k \in 1..Len(r.results) :
                r.results[k].id = r.pre[ti].id => r.results[k].bbox = r.pre[ti].bbox

\* an unmatched track that moves (its velocity is not zero) is reported
C15_Witness ==
    LET r == last["A"]
    IN \E ti \in UnmatchedTracks(r) :
          /\ r.pre[ti].x[3] # 0
          /\ r.pre[ti].id \in Ids(r.results)

\* C17: after a call every kept track has 0 <= missed_frames <= max_missed
\* and hits >= 1; a matched track has missed_frames 0, one more hit and the
\* detection's bbox; a created track has hits 1, missed_frames 0, the
\* detection's bbox and is in the call's result list.
C17_TrackFields ==
    LET r == last["A"]
        ts == trackers["A"].tracks
    IN /\ \A k \in 1..Len(ts) :
             /\ ts[k].missed_frames >= 0
             /\ ts[k].missed_frames <= trackers["A"].max_missed
             /\ ts[k].hits >= 1
       /\ \A p \in 1..Len(r.pairs) :
             LET t == r.all[r.pairs[p][1]]
             IN /\ t.missed_frames = 0
                /\ t.hits = r.pre[r.pairs[p][1]].hits + 1
                /\ t.bbox = r.dets[r.pairs[p][2]].bbox
       /\ \A p \in 1..Len(r.spawned) :
             LET t == r.all[Len(r.pre) + p]
             IN /\ t.id = r.spawned[p][2]
                /\ t.hits = 1
                /\ t.missed_frames = 0
                /\ t.bbox = r.dets[r.spawned[p][1]].bbox
                /\ t.id \in Ids(r.results)

\* the ids of a list of tracks or of result records are strictly increasing
IdsAscend(l) == \A j \in 1..Len(l) : \A k \in 1..Len(l) : j < k => l[j].id < l[k].id

\* C19: with one instance, after every call the track list and the result
\* list hold the same ids in the same order, strictly increasing.
C19_CreationOrder ==
    /\ IdsAscend(trackers["A"].tracks)
    /\ IdsAscend(last["A"].results)
    /\ Len(last["A"].results) = Len(trackers["A"].tracks)
    /\ \A k \in 1..Len(trackers["A"].tracks) :
          last["A"].results[k].id = trackers["A"].tracks[k].id

\* a track was removed from the front and a new one appended behind a kept one
C19_Witness ==
    LET r == last["A"]
    IN /\ Len(trackers["A"].tracks) >= 2
       /\ r.spawned # <<>>
       /\ \E ti \in 1..Len(r.pre) :
             /\ r.pre[ti].id \notin TrackIds("A")
             /\ \E tj \in 1..Len(r.pre) : tj > ti /\ r.pre[tj].id \in TrackIds("A")

\* the track (index in the call's track list) that detection di ended on
TrackOf(r, di) ==
    IF \E p \in 1..Len(r.pairs) : r.pairs[p][2] = di
    THEN r.pairs[CHOOSE p \in 1..Len(r.pairs) : r.pairs[p][2] = di][1]
    ELSE Len(r.pre) + (CHOOSE p \in 1..Len(r.spawned) : r.spawned[p][1] = di)

Reported(r, id, bbox) ==
    \E k \in 1..Len(r.results) : r.results[k].id = id /\ r.results[k].bbox = bbox

\* C13: two detections of one call whose centroids are more than max_distance
\* apart end on tracks with two different ids, each reported with its
\* detection's bbox.
C13_FarApartDistinct ==
    LET r == last["A"]
        md == trackers["A"].max_distance
    IN \A di \in 1..Len(r.dets) : \A dj \in 1..Len(r.dets) :
          ( /\ di # dj
            /\ Dist2(r.dets[di].center, r.dets[dj].center) > md * md )
          => /\ r.all[TrackOf(r, di)].id # r.all[TrackOf(r, dj)].id
             /\ Reported(r, r.all[TrackOf(r, di)].id, r.dets[di].bbox)
             /\ Reported(r, r.all[TrackOf(r, dj)].id, r.dets[dj].bbox)

\* C20: an id that was reported by a call and is absent from the result list
\* of a later call is in no result list of any call after that one.
C20_RemovalFinal ==
    LET h == hist["A"]
    IN \A a \in 1..Len(h) : \A b \in 1..Len(h) : \A c \in 1..Len(h) :
          (a < b /\ b < c)
          => \A id \in Ids(h[a].results) :
                id \notin Ids(h[b].results) => id \notin Ids(h[c].results)

\* C16: a filter call that raises is contained.  The track whose predict
\* raised has bbox, missed_frames and hits as before; the matched track whose
\* update raised has them as before the call and its filter as predicted; the
\* association is the greedy one over all tracks; every other matched track
\* is updated, every unmatched track counted as missed, every detection is
\* matched or creates a track, and the call returns the kept tracks.
C16_FailureContained ==
    LET r == last["A"]
        f == r.fail
        paired == {r.pairs[k][1] : k \in 1..Len(r.pairs)}
    IN /\ \A k \in 1..Len(r.pre) :
             /\ r.pred[k].bbox = r.pre[k].bbox
             /\ r.pred[k].missed_frames = r.pre[k].missed_frames
             /\ r.pred[k].hits = r.pre[k].hits
             /\ k \in f.pe => r.pred[k] = r.pre[k]
       /\ r.pairs = RefPairs(r.pred, r.dets, trackers["A"].max_distance, 1, {})
       /\ \A p \in 1..Len(r.pairs) :
             LET ti == r.pairs[p][1]
             IN IF ti \in f.u
                THEN /\ r.all[ti].bbox = r.pre[ti].bbox
                     /\ r.all[ti].missed_frames = r.pre[ti].missed_frames
                     /\ r.all[ti].hits = r.pre[ti].hits
                     /\ r.all[ti].x = r.pred[ti].x
                     /\ r.all[ti].P = r.pred[ti].P
                ELSE /\ r.all[ti].bbox = r.dets[r.pairs[p][2]].bbox
                     /\ r.all[ti].missed_frames = 0
                     /\ r.all[ti].hits = r.pre[ti].hits + 1
       /\ \A ti \in (1..Len(r.pre)) \ paired :
             r.all[ti].missed_frames = r.pre[ti].missed_frames + 1
       /\ PairedDets(r) \cup SpawnedDets(r) = 1..Len(r.dets)
       /\ Len(r.all) = Len(r.pre) + Len(r.spawned)
       /\ Len(r.results) = Len(trackers["A"].tracks)
       /\ \A k \in 1..Len(r.results) :
             /\ r.results[k].id = trackers["A"].tracks[k].id
             /\ r.results[k].bbox = trackers["A"].tracks[k].bbox

\* a call after a call in which an update raised: again an update raises on
\* a matched track, a predict raises half way, and the other detection of
\* the frame creates a track that is reported
C16_Witness ==
    LET r == last["A"]
        h == hist["A"]
    IN /\ Len(h) >= 2
       /\ h[Len(h) - 1].ufailed # {}
       /\ h[Len(h)].ufailed # {}
       /\ r.fail.pl # {}
       /\ r.spawned # <<>>
       /\ \E p \in 1..Len(r.spawned) : r.spawned[p][2] \in Ids(r.results)

====
